---- MODULE Spec2Model ----
(***************************************************************************)
(* The NO2 time-series cells of                                            *)
(* docs/examples/Working_with_CloudOptimizedGeoTIFF.ipynb: one fetch_bbox  *)
(* task per file is submitted to a ThreadPoolExecutor, the futures are     *)
(* watched with as_completed/tqdm, drained with _filter_futures, unpacked  *)
(* with zip and plotted.                                                  *)
(*                                                                         *)
(* Python sequences are 0-based and TLA+ sequences 1-based: x[k] in the    *)
(* notebook is x[k+1] here, x[-1] is x[Len(x)].                            *)
(***************************************************************************)
EXTENDS Integers, Sequences, FiniteSets, TLC

\* Largest number of files handed to one cell (len(files_15), len(files)).
MaxItems == 3

\* Largest pool size tried; the cells use max_workers=10 and max_workers=50.
MaxWorkers == 2

---------------------------------------------------------------------------
(* Data *)

\* The date tokens "{YEAR}m{MONTH:02}{DAY:02}" of the keys, in ascending
\* (string) order: the 15th of successive months.
DateTokens ==
    <<"2019m0115", "2019m0215", "2019m0315", "2019m0415", "2019m0515",
      "2019m0615">>

\* String order on the labels: a label is the field split cuts out of a key,
\* which holds one date token.
Rank(label) == CHOOSE k \in 1..Len(DateTokens) : <<DateTokens[k]>> = label

\* The d-th S3 key "OMI-Aura_L3-OMNO2d_{date token}_v003...", as its tokens.
File(d) == <<"OMI-Aura", "_", "L3-OMNO2d", "_", DateTokens[d], "_", "v003.tif">>

\* str.split(sep): the fields between the separators.
RECURSIVE split(_, _)
split(s, sep) ==
    IF \A k \in 1..Len(s) : s[k] # sep
    THEN <<s>>
    ELSE LET k == CHOOSE j \in 1..Len(s) :
                      s[j] = sep /\ \A h \in 1..(j - 1) : s[h] # sep
         IN  <<SubSeq(s, 1, k - 1)>> \o split(SubSeq(s, k + 1, Len(s)), sep)

\* _url(src_path)
_url(src_path) == <<"s3://omi-no2-nasa/">> \o src_path

\* The files a cell works on: files comes from list_objects and files_15 is
\* a filter of it; the cell itself neither sorts nor checks the list, so it
\* is taken in ascending and in descending date order, of every length.
FileLists ==
    {[i \in 1..n |-> File(i)] : n \in 0..MaxItems}
        \cup {[i \in 1..n |-> File(n + 1 - i)] : n \in 0..MaxItems}

\* bounds = featureBounds(geojson), unpacked as xmin, ymin, xmax, ymax. No
\* cell checks them: a well-formed and a malformed box (xmin > xmax).
Windows == {<<0, 0, 1, 1>>, <<1, 0, 0, 1>>}

WellFormed(w) == w[1] <= w[3] /\ w[2] <= w[4]

\* The global name mask that fetch_bbox reads. No cell of the notebook binds
\* it, so after a run from the top it is unbound; a kernel in which it was
\* bound by hand holds an array [bands, samples].
Unbound == <<>>

GlobalMasks == {Unbound, << <<0, 255>> >>}

\* A crop payload [bands, samples] (the samples of a band flattened): one
\* value band, then the mask band.
Crops == { << <<3, 7>>, <<255, 0>> >> }

\* What the service does with one request: the connection fails, no answer
\* ever comes, a non-2xx answer (its body an error document, no .npy), a 2xx
\* answer whose body is no .npy, a 2xx answer with a crop.
TransportError == [kind |-> "ConnectionError", status |-> 0, npy |-> FALSE, content |-> <<>>]

NeverAnswers == [kind |-> "hang", status |-> 0, npy |-> FALSE, content |-> <<>>]

HttpError == [kind |-> "response", status |-> 500, npy |-> FALSE, content |-> <<>>]

NotAnArray == [kind |-> "response", status |-> 200, npy |-> FALSE, content |-> <<>>]

Crop(p) == [kind |-> "response", status |-> 200, npy |-> TRUE, content |-> p]

\* The crop endpoint answers a well-formed box with a crop or fails; it has
\* no crop to return for a malformed one.
Responses(w) ==
    {TransportError, NeverAnswers, HttpError, NotAnArray}
        \cup (IF WellFormed(w) THEN {Crop(p) : p \in Crops} ELSE {})

---------------------------------------------------------------------------
(* Pure functions of the notebook *)

SetMax(S) == CHOOSE x \in S : \A y \in S : y <= x

SetMin(S) == CHOOSE x \in S : \A y \in S : x <= y

\* _stats(data, mask): arr.mask = mask == 0 hides the samples at which the
\* given mask plane is 0, in every band of data; min and max run over the
\* rest. (mean and std are returned too; fetch_bbox reads only s[1], the max.)
\* numpy.ma gives the masked constant, whose item() is 0, when all are hidden.
_stats(data, m) ==
    LET valid == {data[b][s] : b \in 1..Len(data),
                               s \in {t \in 1..Len(m) : m[t] # 0}}
    IN  IF valid = {} THEN <<0, 0>> ELSE <<SetMin(valid), SetMax(valid)>>

\* The GET that fetch_bbox sends for a file: the crop url spells out the
\* window as xmin, ymin, xmax, ymax, and no timeout is given.
Request(file, w) ==
    [url |-> <<"cog/crop/", w[1], w[2], w[3], w[4], ".npy">>,
     params |-> [url |-> _url(file), bidx |-> "1", max_size |-> 128],
     timeout |-> "None"]

Returned(v) == [ok |-> TRUE, result |-> v, exception |-> ""]

Raised(e) == [ok |-> FALSE, result |-> <<>>, exception |-> e]

\* fetch_bbox(file), given the service's answer r and the global mask g.
\* requests.get has no timeout and its status is not looked at; numpy.load
\* raises on a body that is no .npy; mask[-1] reads the global mask.
fetch_bbox(file, r, g) ==
    IF r.kind = "ConnectionError" THEN Raised("ConnectionError")
    ELSE IF ~r.npy THEN Raised("ValueError")
    ELSE IF g = Unbound THEN Raised("NameError")
    ELSE LET data == r.content
             s == _stats(SubSeq(data, 1, Len(data) - 1), g[Len(g)])
         IN  Returned(<<s[2], split(file, "_")[3]>>)

\* zip of the unpacked pairs: one tuple per position of the pairs, none for no pairs.
zip_star(pairs) ==
    IF pairs = <<>> THEN <<>>
    ELSE [k \in 1..Len(pairs[1]) |-> [i \in 1..Len(pairs) |-> pairs[i][k]]]

---------------------------------------------------------------------------
(* State *)

VARIABLES
    files_15,      \* the files of the cell
    bounds,        \* xmin, ymin, xmax, ymax
    mask,          \* the global name mask
    max_workers,   \* ThreadPoolExecutor(max_workers=...)
    service,       \* the service's answer to each file's request
    pc,            \* where the cell's main thread is
    future_work,   \* the futures submitted so far (future k is for file k)
    work_queue,    \* the executor's queue of work items
    num_threads,   \* worker threads of the executor
    running,       \* the tasks a worker thread is running
    future,        \* each future's state, result and exception
    attempts,      \* how often each file's request was sent
    sent,          \* the requests sent to the service
    completed,     \* the futures in the order they finished
    progress,      \* tqdm's count
    pairs,         \* list(_filter_futures(future_work))
    values,
    dates,
    plotted,       \* what ax1.plot was given
    error          \* the exception that left the cell, "" for none

vars == <<files_15, bounds, mask, max_workers, service, pc, future_work,
          work_queue, num_threads, running, future, attempts, sent,
          completed, progress, pairs, values, dates, plotted, error>>

inputs == <<files_15, bounds, mask, max_workers, service>>

output == <<pairs, values, dates, plotted, error>>

N == Len(files_15)

Pending == [state |-> "PENDING", ok |-> FALSE, result |-> <<>>, exception |-> ""]

Running == [state |-> "RUNNING", ok |-> FALSE, result |-> <<>>, exception |-> ""]

Finished(o) == [state |-> "FINISHED", ok |-> o.ok, result |-> o.result,
                exception |-> o.exception]

Init ==
    /\ files_15 \in FileLists
    /\ bounds \in Windows
    /\ mask \in GlobalMasks
    /\ max_workers \in 1..MaxWorkers
    /\ service \in [1..Len(files_15) -> Responses(bounds)]
    /\ pc = "submit"
    /\ future_work = <<>>
    /\ work_queue = <<>>
    /\ num_threads = 0
    /\ running = {}
    /\ future = [i \in 1..Len(files_15) |-> Pending]
    /\ attempts = [i \in 1..Len(files_15) |-> 0]
    /\ sent = {}
    /\ completed = <<>>
    /\ progress = 0
    /\ pairs = <<>>
    /\ values = <<>>
    /\ dates = <<>>
    /\ plotted = <<>>
    /\ error = ""

---------------------------------------------------------------------------
(* The executor (concurrent.futures.ThreadPoolExecutor, Python 3.7) *)

\* A pool that starts a worker thread for every submit, whatever its size.
_adjust_thread_count_unbounded(n, limit) == n + 1

\* A pool that never starts a second worker thread.
_adjust_thread_count_single(n, limit) == IF n < 1 THEN n + 1 ELSE n

\* _adjust_thread_count, called by every submit: one more worker thread
\* while there are fewer than max_workers.
_adjust_thread_count(n, limit) == IF n < limit THEN n + 1 ELSE n

\* executor.submit(fetch_bbox, file) for file in files_15: the next file's
\* work item is queued and its future appended to future_work.
Submit ==
    /\ pc = "submit"
    /\ Len(future_work) < N
    /\ LET k == Len(future_work) + 1
       IN  /\ future_work' = Append(future_work, k)
           /\ work_queue' = Append(work_queue, k)
    /\ num_threads' = _adjust_thread_count(num_threads, max_workers)
    /\ UNCHANGED <<inputs, pc, running, future, attempts, sent, completed, progress,
                   output>>

\* The list comprehension is exhausted: on to the as_completed loop.
EndSubmit ==
    /\ pc = "submit"
    /\ Len(future_work) = N
    /\ pc' = "as_completed"
    /\ UNCHANGED <<inputs, future_work, work_queue, num_threads, running,
                   future, attempts, sent, completed, progress, output>>

\* A worker thread waiting in work_queue.get takes the oldest work item and
\* runs it: fetch_bbox sends its request.
Start(i) ==
    /\ work_queue # <<>>
    /\ i = Head(work_queue)
    /\ Cardinality(running) < num_threads
    /\ work_queue' = Tail(work_queue)
    /\ running' = running \cup {i}
    /\ future' = [future EXCEPT ![i] = Running]
    /\ attempts' = [attempts EXCEPT ![i] = @ + 1]
    /\ sent' = sent \cup {Request(files_15[i], bounds)}
    /\ UNCHANGED <<inputs, pc, future_work, num_threads, completed, progress,
                   output>>

\* The service answers (or the connection fails): fetch_bbox returns or
\* raises, the work item stores that in the future, and the worker thread
\* goes back to the queue. A request that is never answered stays running.
Complete(i) ==
    /\ i \in running
    /\ service[i].kind # "hang"
    /\ future' = [future EXCEPT
                    ![i] = Finished(fetch_bbox(files_15[i], service[i], mask))]
    /\ running' = running \ {i}
    /\ completed' = Append(completed, i)
    /\ UNCHANGED <<inputs, pc, future_work, work_queue, num_threads, attempts, sent,
                   progress, output>>

---------------------------------------------------------------------------
(* The cell's main thread *)

\* A progress bar that counts a finished future only when its task returned.
AsCompleted_only_returned ==
    /\ pc = "as_completed"
    /\ progress < Len(completed)
    /\ future[completed[progress + 1]].ok
    /\ progress' = progress + 1
    /\ UNCHANGED <<inputs, pc, future_work, work_queue, num_threads, running,
                   future, attempts, sent, completed, output>>

\* for f in tqdm(futures.as_completed(future_work), total=...): pass
\* as_completed hands over one more finished future, tqdm counts it.
AsCompleted ==
    /\ pc = "as_completed"
    /\ progress < Len(completed)
    /\ progress' = progress + 1
    /\ UNCHANGED <<inputs, pc, future_work, work_queue, num_threads, running,
                   future, attempts, sent, completed, output>>

\* A cell that goes on to the drain without the as_completed loop and
\* without joining the pool (shutdown(wait=False)).
Shutdown_no_wait ==
    /\ pc = "as_completed"
    /\ num_threads' = 0
    /\ pc' = "drain"
    /\ UNCHANGED <<inputs, future_work, work_queue, running, future, attempts,
                   sent, completed, progress, output>>

\* as_completed has handed over every future: the loop ends and the with
\* block is left, executor.shutdown(wait=True) joining the worker threads.
Shutdown ==
    /\ pc = "as_completed"
    /\ progress = Len(future_work)
    /\ running = {}
    /\ num_threads' = 0
    /\ pc' = "drain"
    /\ UNCHANGED <<inputs, future_work, work_queue, running, future, attempts, sent,
                   completed, progress, output>>

\* A drain that reads the futures in the order they finished, as a loop over
\* as_completed would.
RECURSIVE _filter_completed(_, _)
_filter_completed(order, fut) ==
    IF order = <<>> THEN <<>>
    ELSE (IF fut[Head(order)].ok THEN <<fut[Head(order)].result>> ELSE <<>>)
             \o _filter_completed(Tail(order), fut)

_filter_futures_as_completed(tasks, fut) == _filter_completed(completed, fut)

\* _filter_futures(tasks): the results of the futures, in the order of
\* tasks; a future whose task raised is passed over.
RECURSIVE _filter_futures(_, _)
_filter_futures(tasks, fut) ==
    IF tasks = <<>> THEN <<>>
    ELSE (IF fut[Head(tasks)].ok THEN <<fut[Head(tasks)].result>> ELSE <<>>)
             \o _filter_futures(Tail(tasks), fut)

\* list(_filter_futures(future_work)); future.result() waits for a future
\* that is not finished.
Drain ==
    /\ pc = "drain"
    /\ \A k \in 1..Len(future_work) : future[future_work[k]].state = "FINISHED"
    /\ pairs' = _filter_futures(future_work, future)
    /\ pc' = "unpack"
    /\ UNCHANGED <<inputs, future_work, work_queue, num_threads, running,
                   future, attempts, sent, completed, progress, values, dates,
                   plotted, error>>

\* values, dates = zip(...): the unpacking raises ValueError unless zip
\* yields exactly two tuples.
Unpack ==
    /\ pc = "unpack"
    /\ LET z == zip_star(pairs)
       IN  \/ /\ Len(z) = 2
              /\ values' = z[1]
              /\ dates' = z[2]
              /\ pc' = "plot"
              /\ UNCHANGED error
           \/ /\ Len(z) # 2
              /\ error' = "ValueError"
              /\ pc' = "raised"
              /\ UNCHANGED <<values, dates>>
    /\ UNCHANGED <<inputs, future_work, work_queue, num_threads, running,
                   future, attempts, sent, completed, progress, pairs, plotted>>

\* ax1.plot(dates, values, label="No2")
Plot ==
    /\ pc = "plot"
    /\ plotted' = <<dates, values>>
    /\ pc' = "done"
    /\ UNCHANGED <<inputs, future_work, work_queue, num_threads, running,
                   future, attempts, sent, completed, progress, pairs, values,
                   dates, error>>

Next ==
    \/ Submit
    \/ EndSubmit
    \/ \E i \in 1..N : Start(i)
    \/ \E i \in 1..N : Complete(i)
    \/ AsCompleted
    \/ Shutdown
    \/ Drain
    \/ Unpack
    \/ Plot

Spec == Init /\ [][Next]_vars

\* The runs on which the pool's scheduling is studied: the files in their
\* listed order, a well-formed box, a service that answers a request with a
\* crop or never (a task still fails where mask is unbound), and threads
\* that run whenever they can: nothing that can happen is put off for ever.
PoolInit ==
    /\ Init
    /\ WellFormed(bounds)
    /\ \A i \in 1..N : files_15[i] = File(i) /\ service[i].kind \in {"response", "hang"}
                         /\ (service[i].kind = "response" => service[i].npy)

PoolSpec == PoolInit /\ [][Next]_vars /\ WF_vars(Next)

---------------------------------------------------------------------------
(* Vocabulary of the properties *)

Min(a, b) == IF a <= b THEN a ELSE b

\* The cell has ended, normally or with an exception.
Ended == pc \in {"done", "raised"}

\* The request of file i got a 2xx answer that decodes as an array.
RequestSucceeded(i) ==
    service[i].kind = "response" /\ service[i].status = 200 /\ service[i].npy

\* The request of file i failed: transport error, non-2xx, undecodable body.
RequestFailed(i) == service[i].kind # "hang" /\ ~RequestSucceeded(i)

\* The label of file i.
Label(i) == split(files_15[i], "_")[3]

\* Ascending in the order of the date tokens.
SortedByLabel(labels) ==
    \A k \in 1..(Len(labels) - 1) : Rank(labels[k]) <= Rank(labels[k + 1])

\* What the inputs alone determine: the outcome of each file's task and the
\* pairs of the files whose task returns, in the order of files_15.
Outcome(i) == fetch_bbox(files_15[i], service[i], mask)

RECURSIVE ExpectedFrom(_)
ExpectedFrom(i) ==
    IF i > N THEN <<>>
    ELSE (IF Outcome(i).ok THEN <<Outcome(i).result>> ELSE <<>>)
             \o ExpectedFrom(i + 1)

ExpectedPairs == ExpectedFrom(1)

\* The maximum of the value samples at which the payload's own last band,
\* its mask band, is not 0.
OwnMaskedMax(data) ==
    SetMax({data[b][s] : b \in 1..(Len(data) - 1),
                         s \in {t \in 1..Len(data[Len(data)]) :
                                    data[Len(data)][t] # 0}})

---------------------------------------------------------------------------
(* Properties *)

\* C1: in every reachable state the number of requests that have started
\* and not yet completed is at most max_workers, whatever the number of
\* files and the order in which the requests complete.
C1_ConcurrencyBound == Cardinality(running) <= max_workers

\* C1 witness: the pool is full while more work is queued.
C1_Witness ==
    /\ N > max_workers
    /\ Cardinality(running) = max_workers
    /\ work_queue # <<>>

\* C2 (as claimed): once the futures are drained the result holds exactly
\* one pair for every file whose request succeeded and none for a file whose
\* request failed; its size is between 0 and len(files), each of its labels
\* is the label of a file, and when every request succeeded its size is
\* len(files) and its labels are the labels of the files.
C2_OnePairPerSuccessfulRequest ==
    pc \in {"unpack", "plot", "done", "raised"} =>
        /\ Len(pairs) <= N
        /\ \A k \in 1..Len(pairs) : \E i \in 1..N : pairs[k][2] = Label(i)
        /\ \A i \in 1..N :
               Cardinality({k \in 1..Len(pairs) : pairs[k][2] = Label(i)})
                   = (IF RequestSucceeded(i) THEN 1 ELSE 0)
        /\ (\A i \in 1..N : RequestSucceeded(i)) =>
               /\ Len(pairs) = N
               /\ {pairs[k][2] : k \in 1..Len(pairs)} = {Label(i) : i \in 1..N}

\* C3 (as claimed): when every request of a non-empty batch fails, the cell
\* ends with an empty result and no exception reaches the caller.
C3_AllFailedNoException ==
    (N > 0 /\ \A i \in 1..N : RequestFailed(i)) =>
        /\ pc # "raised"
        /\ error = ""
        /\ pairs = <<>>

\* C4 (as claimed): a failed request is confined to its file: every file is
\* submitted once and its request sent at most once, at the join every
\* file's task has run to its end, and a batch in which a request failed
\* never ends with an exception at the caller.
C4_FailureConfined ==
    /\ \A i \in 1..N : attempts[i] <= 1
    /\ \A k \in 1..Len(future_work) : future_work[k] = k
    /\ pc \in {"drain", "unpack", "plot", "done", "raised"} =>
           \A i \in 1..N : attempts[i] = 1 /\ future[i].state = "FINISHED"
    /\ (\E i \in 1..N : RequestFailed(i)) => pc # "raised" /\ error = ""

\* C5: the final series and the exception, if any, are determined by the
\* files, the service's answers and the global mask alone: two runs on the
\* same inputs that differ only in the order in which the requests complete
\* end with the same pairs in the same positions.
C5_Deterministic ==
    /\ pc \in {"unpack", "plot", "done", "raised"} => pairs = ExpectedPairs
    /\ pc \in {"plot", "done"} =>
           /\ ExpectedPairs # <<>>
           /\ values = [k \in 1..Len(ExpectedPairs) |-> ExpectedPairs[k][1]]
           /\ dates = [k \in 1..Len(ExpectedPairs) |-> ExpectedPairs[k][2]]
    /\ pc = "done" => plotted = <<dates, values>> /\ error = ""
    /\ pc = "raised" => ExpectedPairs = <<>> /\ error = "ValueError"

\* C5 witness: a run that ends with two points whose requests completed in
\* the opposite order of their submission.
C5_Witness ==
    /\ pc = "done"
    /\ Len(dates) >= 2
    /\ \E a, b \in 1..Len(completed) :
           a < b /\ completed[a] > completed[b]
               /\ future[completed[a]].ok /\ future[completed[b]].ok

\* C6 (as claimed): the series handed to plotting is in ascending order of
\* label, whatever the order of the files and of the completions.
C6_PlottedSorted == pc = "done" => SortedByLabel(plotted[1])

\* C7 (as claimed): with no files, or with a bounding box that has
\* xmin > xmax or ymin > ymax, nothing is submitted to the pool, no request
\* is started and the cell does not end normally.
C7_InvalidInputRejected ==
    (N = 0 \/ ~WellFormed(bounds)) =>
        /\ future_work = <<>>
        /\ \A i \in 1..N : attempts[i] = 0
        /\ sent = {}
        /\ pc # "done"

\* C8 (as claimed): every request that is running can end, by an answer or
\* by its timeout, so that the cell never stops before it has ended.
C8_RequestsTimeOut ==
    /\ \A i \in running : ENABLED Complete(i)
    /\ Ended \/ ENABLED Next

\* C9 (as claimed): for a file whose response decodes to value bands
\* followed by a mask band, the task returns the file's label paired with
\* the maximum of the value samples at which the response's own mask band
\* is not 0.
C9_MaxOverOwnMask ==
    \A i \in 1..N :
        (future[i].state = "FINISHED" /\ RequestSucceeded(i)) =>
            /\ future[i].ok
            /\ future[i].result = <<OwnMaskedMax(service[i].content), Label(i)>>

\* The worker threads can take no more work: every one of them waits for an
\* answer that never comes.
Stalled ==
    /\ running # {}
    /\ Cardinality(running) = num_threads
    /\ pc # "submit" \/ num_threads = max_workers
    /\ \A j \in running : service[j].kind = "hang"

\* Submission has settled: every file is submitted and no worker thread
\* can take a work item.
Settled ==
    /\ pc # "submit"
    /\ work_queue = <<>> \/ Cardinality(running) = num_threads

\* C10: the pool is work-conserving. A request starts only while fewer than
\* max_workers are outstanding; once submission has settled exactly
\* min(max_workers, files not yet completed) requests are outstanding; and
\* every queued request is started in the end, unless every worker thread
\* waits for an answer that never comes.
C10_WorkConserving ==
    /\ [][Cardinality(running') > Cardinality(running)
              => Cardinality(running) < max_workers]_vars
    /\ [](Settled =>
              Cardinality(running) = Min(max_workers, N - Len(completed)))
    /\ \A i \in 1..MaxItems :
           (i \in 1..N /\ future[i].state = "PENDING" /\ attempts[i] = 0
                /\ \E k \in 1..Len(work_queue) : work_queue[k] = i)
               ~> ((i \in 1..N /\ attempts[i] = 1) \/ Stalled)

\* C10 witness: two workers, three files, nothing completed: exactly two
\* requests are outstanding and the third waits in the queue.
C10_Witness ==
    /\ max_workers = 2
    /\ N = 3
    /\ pc = "as_completed"
    /\ completed = <<>>
    /\ Cardinality(running) = 2
    /\ work_queue = <<3>>

\* C11: the progress count never decreases and moves by one at a time; it
\* counts finished requests only, and every finished request, returned or
\* raised, can be counted; it is len(files) once the pool is joined; and a
\* step of the count changes neither the futures nor the result, which is
\* what the inputs alone determine.
C11_Progress ==
    /\ [][progress' = progress \/ progress' = progress + 1]_vars
    /\ [][progress' # progress =>
              /\ progress < Len(completed)
              /\ UNCHANGED <<future, completed, running, work_queue, output>>]_vars
    /\ [](progress <= Len(completed))
    /\ []((pc = "as_completed" /\ progress < Len(completed))
              => ENABLED AsCompleted)
    /\ [](pc \in {"drain", "unpack", "plot", "done", "raised"} =>
              progress = N /\ Len(completed) = N)
    /\ [](pc \in {"unpack", "plot", "done", "raised"} => pairs = ExpectedPairs)

\* C11 witness: the pool is joined after the count went over a request that
\* returned and over one that raised.
C11_Witness ==
    /\ pc = "drain"
    /\ progress = N
    /\ \E i, j \in 1..N : future[i].ok /\ ~future[j].ok

\* The file whose task is the k-th, in the order of submission, to have
\* left a result in its future.
KthReturned(k) ==
    CHOOSE i \in 1..N :
        /\ future[i].ok
        /\ Cardinality({j \in 1..i : future[j].ok}) = k

\* C12: the drain starts only after the with block is left, when every
\* file is submitted and every future is finished, so that reading a result
\* never waits; and it yields the results of the tasks that returned in the
\* order of their submission, whatever the order in which they finished.
C12_DrainInSubmissionOrder ==
    /\ pc \in {"drain", "unpack", "plot", "done", "raised"} =>
           /\ Len(future_work) = N
           /\ work_queue = <<>> /\ running = {} /\ num_threads = 0
           /\ \A i \in 1..N : future[i].state = "FINISHED"
    /\ pc = "drain" => ENABLED Drain
    /\ pc \in {"unpack", "plot", "done", "raised"} =>
           /\ Len(pairs) = Cardinality({i \in 1..N : future[i].ok})
           /\ \A k \in 1..Len(pairs) : pairs[k] = future[KthReturned(k)].result

\* C12 witness: drained pairs of two tasks that finished in the opposite
\* order of their submission, a task that raised between them.
C12_Witness ==
    /\ pc = "unpack"
    /\ N = 3
    /\ Len(pairs) = 2
    /\ ~future[2].ok
    /\ \E a, b \in 1..Len(completed) :
           a < b /\ completed[a] = 3 /\ completed[b] = 1

====
